---- MODULE Spec2Model ----
(***************************************************************************)
(* State-machine model of the first-person "shoot spheres" demos of        *)
(* three-physics (src/unnamed/part_000).  The file holds two variants of   *)
(* the demo: the first (lines 1-281) has keyboard control, a kinematic     *)
(* camera controller and a culling sync step; the second (lines 283-484)   *)
(* only spawns projectiles and copies their transforms.                    *)
(*                                                                         *)
(* Numbers are fixed-point integers:                                       *)
(*   time      in 1/TimeScale seconds                                      *)
(*   velocity  in 1/VScale units per second                                *)
(*   position  in 1/PScale units                                           *)
(*   direction in 1/DScale (a unit vector has length DScale)               *)
(* With these resolutions every product the code computes on the modelled  *)
(* inputs is an exact integer, except the normalisation of a diagonal      *)
(* direction, which is truncated to 1/DScale.                              *)
(***************************************************************************)
EXTENDS Integers, Sequences, FiniteSets, TLC

\* ---------------------------------------------------------------- bounds
MaxSpheres  == 2    \* most projectiles alive at once
ProjMaxDt   == 1    \* largest elapsed time when the projectiles are explored
ProjMaxTime == 2    \* horizon of the clock when the projectiles are explored
CtlMaxDt    == 1    \* largest elapsed time when the controller is explored
CtlMaxTime  == 2    \* horizon of the clock when the controller is explored
JumpMaxDt   == 3    \* largest elapsed time when the jump is explored
JumpMaxTime == 7    \* horizon of the clock when the jump is explored
IdleMaxSpheres == 1 \* most projectiles alive when the released capture is explored
IdleMaxDt   == 1    \* largest elapsed time when the released capture is explored
IdleMaxTime == 3    \* horizon of the clock when the released capture is explored
LoopMaxSpheres == 1 \* most projectiles alive when the frame loop is explored
LoopMaxDt   == 1    \* largest elapsed time when the frame loop is explored
LoopMaxTime == 1    \* horizon of the clock when the frame loop is explored
RegMaxSpheres == 3  \* most projectiles alive when the registry is explored
RegMaxDt    == 1    \* largest elapsed time when the registry is explored
RegMaxTime  == 2    \* horizon of the clock when the registry is explored
PauseMaxDt  == 3    \* largest elapsed time when the pause is explored
PauseMaxTime == 4   \* horizon of the clock when the pause is explored

\* ------------------------------------------------- fixed-point resolution
TimeScale == 10
VScale    == 100
PScale    == 1000
DScale    == 1000

\* ------------------------------------------------------ program constants
DampingCoeff   == 10     \* velocity.x -= velocity.x * 10.0 * deltaTime
GravityAccel   == 980    \* velocity.y -= 9.8 * 100.0 * deltaTime
MoveAccel      == 400    \* velocity.z -= direction.z * 400.0 * deltaTime
JumpImpulse    == 350    \* velocity.y += 350
EyeHeight      == 10     \* if (camera.position.y < 10)
CullY          == -50    \* if (body.position.y < -50)
ShootVelocity  == 20     \* const shootVelocity = 20
SpawnOffset    == 1      \* direction.clone().multiplyScalar(1)
StepsPerSecond == 60     \* world.step(1 / 60, deltaTime, 3)
MaxSubSteps    == 3      \* world.step(1 / 60, deltaTime, 3)

\* Identities of the objects created at load time.
planeBody        == 0
plane            == 0
camera           == -1
ambientLight     == -2
directionalLight == -3

\* The key codes a keyboard event may carry; KeyQ stands for every code the
\* handlers have no case for.
MoveCodes == {"KeyW", "ArrowUp", "KeyA", "ArrowLeft",
              "KeyS", "ArrowDown", "KeyD", "ArrowRight"}
Codes == MoveCodes \cup {"Space", "KeyQ"}

VARIABLES
  variant,        \* which of the two demos is loaded (1 or 2)
  moveForward, moveBackward, moveLeft, moveRight, canJump,
  velocity,       \* controller velocity [x, y, z]
  direction,      \* module-level direction vector [x, y, z]
  cam,            \* camera: [position |-> [x, y, z], yaw |-> 0..3]
  isLocked,       \* controls.isLocked
  sphereToUpdate, \* registry: sequence of [mesh |-> id, body |-> id]
  world,          \* ids of the bodies in the physics world
  scene,          \* ids of the objects in the scene
  bodies,         \* heap of projectile bodies: id -> [position, velocity, quaternion]
  meshes,         \* heap of projectile meshes: id -> [position, quaternion]
  previousTime,   \* previousTime / oldElapsedTime
  pending,        \* animation-frame callbacks scheduled and not yet run
  ev,             \* the listener that ran last, and what it was given and did
  keyLog,         \* per key code, the kind of its most recent event
  dirLog          \* per direction, the kind of the most recent event of its keys

inputVars == <<moveForward, moveBackward, moveLeft, moveRight>>
ctlVars   == <<velocity, direction, cam, canJump>>
projVars  == <<sphereToUpdate, world, scene, bodies, meshes>>
loopVars  == <<previousTime, pending>>
logVars   == <<keyLog, dirLog>>
vars == <<variant, inputVars, ctlVars, isLocked, projVars, loopVars, ev, logVars>>

\* ---------------------------------------------------------------- vectors
Vec(x, y, z) == [x |-> x, y |-> y, z |-> z]
Zero3 == Vec(0, 0, 0)
Abs(n) == IF n < 0 THEN -n ELSE n
Sgn(n) == IF n < 0 THEN -1 ELSE IF n > 0 THEN 1 ELSE 0
Min(a, b) == IF a < b THEN a ELSE b
Num(b) == IF b THEN 1 ELSE 0

\* Integer square root, for Vector3.length().
RECURSIVE Bisect(_, _, _)
Bisect(lo, hi, n) ==
  IF hi - lo <= 1 THEN lo
  ELSE LET mid == (lo + hi) \div 2
       IN IF mid * mid <= n THEN Bisect(mid, hi, n) ELSE Bisect(lo, mid, n)
ISqrt(n) == Bisect(0, 2 * DScale, n)

\* Vector3.normalize(): divideScalar(length() || 1), so the zero vector
\* stays the zero vector.  Components are in 1/DScale.
Normalize(v) ==
  LET len == ISqrt(v.x * v.x + v.y * v.y + v.z * v.z)
      d   == IF len = 0 THEN DScale ELSE len
      comp(c) == Sgn(c) * ((Abs(c) * DScale) \div d)
  IN Vec(comp(v.x), comp(v.y), comp(v.z))

\* camera.getWorldDirection() for the four horizontal headings (1/DScale).
WorldDirection(yaw) ==
  CASE yaw = 0 -> Vec(0, 0, -DScale)
    [] yaw = 1 -> Vec(0, 0, DScale)
    [] yaw = 2 -> Vec(DScale, 0, 0)
    [] OTHER   -> Vec(-DScale, 0, 0)

\* The camera's local right axis (column 0 of its matrix), in 1/DScale.
RightAxis(yaw) ==
  LET d == WorldDirection(yaw) IN Vec(-d.z, 0, d.x)

\* ------------------------------------------------------------------- Init
\* ev.type is "load", "input" (a key other than Space, the mouse, the
\* capture), "space", "click" or "tick"; a tick also records the elapsed
\* time, the calls it made in order, the bodies as the solver left them and
\* whether the listener before it was a tick too.
Event(type, dt, calls, stepped, again) ==
  [type |-> type, dt |-> dt, calls |-> calls, stepped |-> stepped, again |-> again]
Input(type) == Event(type, 0, <<>>, <<>>, FALSE)

Dirs == {"forward", "backward", "left", "right"}

\* The direction a key code is bound to by the case labels of the handlers.
Binding(code) ==
  CASE code \in {"KeyW", "ArrowUp"}    -> "forward"
    [] code \in {"KeyA", "ArrowLeft"}  -> "left"
    [] code \in {"KeyS", "ArrowDown"}  -> "backward"
    [] code \in {"KeyD", "ArrowRight"} -> "right"
    [] OTHER -> "none"


Init ==
  /\ variant \in {1, 2}
  /\ moveForward = FALSE /\ moveBackward = FALSE
  /\ moveLeft = FALSE /\ moveRight = FALSE
  /\ canJump = FALSE
  /\ velocity = Zero3
  /\ direction = Zero3
  /\ cam = [position |-> Vec(0, EyeHeight * PScale, 0), yaw |-> 0]
  /\ isLocked = FALSE
  /\ sphereToUpdate = <<>>
  /\ world = {planeBody}
  /\ scene = {camera, ambientLight, directionalLight, plane}
  /\ bodies = <<>>
  /\ meshes = <<>>
  /\ previousTime = 0
  /\ pending = 1
  /\ ev = Input("load")
  /\ keyLog = [c \in Codes |-> "none"]
  /\ dirLog = [d \in Dirs |-> "none"]

\* ------------------------------------------------------------ input state

\* A mutant of handleKeyDown: the jump does not ask whether canJump is set.
handleKeyDownAlwaysJumps(code) ==
  /\ moveForward'  = IF code \in {"KeyW", "ArrowUp"}    THEN TRUE ELSE moveForward
  /\ moveLeft'     = IF code \in {"KeyA", "ArrowLeft"}  THEN TRUE ELSE moveLeft
  /\ moveBackward' = IF code \in {"KeyS", "ArrowDown"}  THEN TRUE ELSE moveBackward
  /\ moveRight'    = IF code \in {"KeyD", "ArrowRight"} THEN TRUE ELSE moveRight
  /\ IF code = "Space"
       THEN /\ velocity' = [velocity EXCEPT !.y = @ + JumpImpulse * VScale]
            /\ canJump' = FALSE
       ELSE UNCHANGED <<velocity, canJump>>

\* A mutant of handleKeyDown: the jump leaves canJump set.
handleKeyDownKeepsLatch(code) ==
  /\ moveForward'  = IF code \in {"KeyW", "ArrowUp"}    THEN TRUE ELSE moveForward
  /\ moveLeft'     = IF code \in {"KeyA", "ArrowLeft"}  THEN TRUE ELSE moveLeft
  /\ moveBackward' = IF code \in {"KeyS", "ArrowDown"}  THEN TRUE ELSE moveBackward
  /\ moveRight'    = IF code \in {"KeyD", "ArrowRight"} THEN TRUE ELSE moveRight
  /\ IF code = "Space" /\ canJump
       THEN /\ velocity' = [velocity EXCEPT !.y = @ + JumpImpulse * VScale]
            /\ UNCHANGED canJump
       ELSE UNCHANGED <<velocity, canJump>>

\* handleKeyDown: the switch on event.code.
handleKeyDown(code) ==
  /\ moveForward'  = IF code \in {"KeyW", "ArrowUp"}    THEN TRUE ELSE moveForward
  /\ moveLeft'     = IF code \in {"KeyA", "ArrowLeft"}  THEN TRUE ELSE moveLeft
  /\ moveBackward' = IF code \in {"KeyS", "ArrowDown"}  THEN TRUE ELSE moveBackward
  /\ moveRight'    = IF code \in {"KeyD", "ArrowRight"} THEN TRUE ELSE moveRight
  /\ IF code = "Space" /\ canJump
       THEN /\ velocity' = [velocity EXCEPT !.y = @ + JumpImpulse * VScale]
            /\ canJump' = FALSE
       ELSE UNCHANGED <<velocity, canJump>>

\* A mutant of handleKeyUp: the ArrowUp label is missing.
handleKeyUpNoArrowUp(code) ==
  /\ moveForward'  = IF code \in {"KeyW"}               THEN FALSE ELSE moveForward
  /\ moveLeft'     = IF code \in {"KeyA", "ArrowLeft"}  THEN FALSE ELSE moveLeft
  /\ moveBackward' = IF code \in {"KeyS", "ArrowDown"}  THEN FALSE ELSE moveBackward
  /\ moveRight'    = IF code \in {"KeyD", "ArrowRight"} THEN FALSE ELSE moveRight
  /\ UNCHANGED <<velocity, canJump>>

\* handleKeyUp: the switch on event.code (no Space case).
handleKeyUp(code) ==
  /\ moveForward'  = IF code \in {"KeyW", "ArrowUp"}    THEN FALSE ELSE moveForward
  /\ moveLeft'     = IF code \in {"KeyA", "ArrowLeft"}  THEN FALSE ELSE moveLeft
  /\ moveBackward' = IF code \in {"KeyS", "ArrowDown"}  THEN FALSE ELSE moveBackward
  /\ moveRight'    = IF code \in {"KeyD", "ArrowRight"} THEN FALSE ELSE moveRight
  /\ UNCHANGED <<velocity, canJump>>

KeyEvent(code) == Input(IF code = "Space" THEN "space" ELSE "input")

\* document "keydown" listener.  Only the first variant registers one.
KeyDown(codes) ==
  \E code \in codes :
    /\ variant = 1
    /\ handleKeyDown(code)
    /\ ev' = KeyEvent(code)
    /\ UNCHANGED <<variant, direction, cam, isLocked, projVars, loopVars, logVars>>

\* document "keyup" listener.  Only the first variant registers one.
KeyUp(codes) ==
  \E code \in codes :
    /\ variant = 1
    /\ handleKeyUp(code)
    /\ ev' = Input("input")
    /\ UNCHANGED <<variant, direction, cam, isLocked, projVars, loopVars, logVars>>

Logged(code, kind) ==
  /\ keyLog' = [keyLog EXCEPT ![code] = kind]
  /\ dirLog' = IF Binding(code) \in Dirs
                 THEN [dirLog EXCEPT ![Binding(code)] = kind]
                 ELSE dirLog

\* The same two listeners, with the log of the events they were given.
KeyDownLogged ==
  \E code \in Codes :
    /\ variant = 1
    /\ handleKeyDown(code)
    /\ Logged(code, "down")
    /\ ev' = KeyEvent(code)
    /\ UNCHANGED <<variant, direction, cam, isLocked, projVars, loopVars>>

KeyUpLogged ==
  \E code \in Codes :
    /\ variant = 1
    /\ handleKeyUp(code)
    /\ Logged(code, "up")
    /\ ev' = Input("input")
    /\ UNCHANGED <<variant, direction, cam, isLocked, projVars, loopVars>>

\* --------------------------------------------------------- pointer capture
\* instructions "click" -> controls.lock(); the capture becomes active.
Lock ==
  /\ ~isLocked
  /\ isLocked' = TRUE
  /\ ev' = Input("input")
  /\ UNCHANGED <<variant, inputVars, ctlVars, projVars, loopVars, logVars>>

\* The capture is released (Escape); controls dispatches "unlock".
Unlock ==
  /\ isLocked
  /\ isLocked' = FALSE
  /\ ev' = Input("input")
  /\ UNCHANGED <<variant, inputVars, ctlVars, projVars, loopVars, logVars>>

\* Mouse movement turns the camera, only while the capture is active.
MouseMove(headings) ==
  \E yaw \in headings :
    /\ isLocked
    /\ yaw # cam.yaw
    /\ cam' = [cam EXCEPT !.yaw = yaw]
    /\ ev' = Input("input")
    /\ UNCHANGED <<variant, inputVars, velocity, direction, canJump, isLocked,
                   projVars, loopVars, logVars>>

\* --------------------------------------------------------------- spawner
\* A new object is distinct from every object still referenced.
NewId(used) == CHOOSE n \in 1..(Cardinality(used) + 1) : n \notin used

Scaled(v, mul, div) ==
  Vec((v.x * mul) \div div, (v.y * mul) \div div, (v.z * mul) \div div)
Add3(a, b) == Vec(a.x + b.x, a.y + b.y, a.z + b.z)

\* A mutant of shootSphere: the entry is put at the front of the registry.
shootSphereUnshift ==
  LET d             == WorldDirection(cam.yaw)
      startPosition == Add3(cam.position, Scaled(d, SpawnOffset * PScale, DScale))
      body          == NewId(world \cup DOMAIN bodies)
      mesh          == NewId(scene \cup DOMAIN meshes)
  IN /\ bodies' = bodies @@ (body :>
                    [position   |-> startPosition,
                     velocity   |-> Scaled(d, ShootVelocity * VScale, DScale),
                     quaternion |-> 0])
     /\ world' = world \cup {body}
     /\ meshes' = meshes @@ (mesh :> [position |-> Zero3, quaternion |-> 0])
     /\ scene' = scene \cup {mesh}
     /\ sphereToUpdate' = <<[mesh |-> mesh, body |-> body]>> \o sphereToUpdate

\* A mutant of shootSphere: the body starts at the camera, without the offset
\* along the view direction.
shootSphereAtCamera ==
  LET d             == WorldDirection(cam.yaw)
      startPosition == cam.position
      body          == NewId(world \cup DOMAIN bodies)
      mesh          == NewId(scene \cup DOMAIN meshes)
  IN /\ bodies' = bodies @@ (body :>
                    [position   |-> startPosition,
                     velocity   |-> Scaled(d, ShootVelocity * VScale, DScale),
                     quaternion |-> 0])
     /\ world' = world \cup {body}
     /\ meshes' = meshes @@ (mesh :> [position |-> Zero3, quaternion |-> 0])
     /\ scene' = scene \cup {mesh}
     /\ sphereToUpdate' = Append(sphereToUpdate, [mesh |-> mesh, body |-> body])

\* shootSphere of the first variant.
shootSphere ==
  LET d             == WorldDirection(cam.yaw)
      startPosition == Add3(cam.position, Scaled(d, SpawnOffset * PScale, DScale))
      body          == NewId(world \cup DOMAIN bodies)
      mesh          == NewId(scene \cup DOMAIN meshes)
  IN /\ bodies' = bodies @@ (body :>
                    [position   |-> startPosition,
                     velocity   |-> Scaled(d, ShootVelocity * VScale, DScale),
                     quaternion |-> 0])
     /\ world' = world \cup {body}
     /\ meshes' = meshes @@ (mesh :> [position |-> Zero3, quaternion |-> 0])
     /\ scene' = scene \cup {mesh}
     /\ sphereToUpdate' = Append(sphereToUpdate, [mesh |-> mesh, body |-> body])

\* shootSphere of the second variant: the same effect.
shootSphere2 ==
  LET cameraDirection == WorldDirection(cam.yaw)
      startPosition   == Add3(cam.position,
                              Scaled(cameraDirection, SpawnOffset * PScale, DScale))
      body            == NewId(world \cup DOMAIN bodies)
      mesh            == NewId(scene \cup DOMAIN meshes)
  IN /\ bodies' = bodies @@ (body :>
                    [position   |-> startPosition,
                     velocity   |-> Scaled(cameraDirection, ShootVelocity * VScale, DScale),
                     quaternion |-> 0])
     /\ world' = world \cup {body}
     /\ meshes' = meshes @@ (mesh :> [position |-> Zero3, quaternion |-> 0])
     /\ scene' = scene \cup {mesh}
     /\ sphereToUpdate' = Append(sphereToUpdate, [mesh |-> mesh, body |-> body])

\* A mutant of FireAllowed: the listener does not ask for the capture.
FireAlways == TRUE

\* The guard of the window "click" listener: if (controls.isLocked).
FireAllowed == isLocked

\* window "click" listener of both variants.
Click(maxSpheres) ==
  /\ IF FireAllowed
       THEN /\ Len(sphereToUpdate) < maxSpheres
            /\ IF variant = 1 THEN shootSphere ELSE shootSphere2
       ELSE UNCHANGED projVars
  /\ ev' = Input("click")
  /\ UNCHANGED <<variant, inputVars, ctlVars, isLocked, loopVars, logVars>>

\* ------------------------------------------------------------ frame loop
\* The state one tick works on, with the log of the calls it has made.
Frame ==
  [velocity |-> velocity, direction |-> direction, cam |-> cam,
   canJump |-> canJump, reg |-> sphereToUpdate, world |-> world,
   scene |-> scene, bodies |-> bodies, meshes |-> meshes,
   pending |-> pending - 1, calls |-> <<>>, stepped |-> <<>>]

Call(f, name) == [f EXCEPT !.calls = Append(@, name)]

\* world.step(1 / 60, deltaTime, 3): the number of fixed steps the solver
\* runs for an elapsed time dt, at most MaxSubSteps.
SubSteps(dt) == Min(MaxSubSteps, (dt * StepsPerSecond) \div TimeScale)

\* What the solver may do to one body in a step that advances the world:
\* leave it, or turn it and drop it to the cull threshold or one unit below.
PhysOutcomes == {"rest", "edge", "out"}

Advance(b, o) ==
  CASE o = "rest" -> b
    [] o = "edge" -> [b EXCEPT !.position.y = CullY * PScale, !.quaternion = 1]
    [] o = "out"  -> [b EXCEPT !.position.y = (CullY - 1) * PScale, !.quaternion = 1]

\* The outcomes of one world.step: one per body of the world when the world
\* advances, none to choose when it does not.
PhysChoices(dt) ==
  IF SubSteps(dt) > 0
    THEN [world \ {planeBody} -> PhysOutcomes]
    ELSE {[id \in world \ {planeBody} |-> "rest"]}

\* world.step: only the bodies in the world move, and only when at least
\* one fixed step fits into the elapsed time.
PhysicsStep(f, dt, phys) ==
  LET moved == [id \in DOMAIN f.bodies |->
                  IF SubSteps(dt) > 0 /\ id \in f.world
                    THEN Advance(f.bodies[id], phys[id])
                    ELSE f.bodies[id]]
  IN Call([f EXCEPT !.bodies = moved, !.stepped = moved], "step")

\* velocity.x -= velocity.x * 10.0 * deltaTime
Damped(v, dt) == v - (v * DampingCoeff * dt) \div TimeScale

\* velocity.y -= 9.8 * 100.0 * deltaTime
Fallen(vy, dt) == vy - (GravityAccel * VScale * dt) \div TimeScale

\* A mutant of Accelerated: the acceleration is not scaled by the elapsed time.
AcceleratedUnscaled(v, d, held, dt) ==
  IF held THEN v - (d * MoveAccel * VScale) \div DScale ELSE v

\* A mutant of Accelerated: the acceleration is not multiplied by the
\* direction (velocity.z -= 400.0 * deltaTime).
AcceleratedUndirected(v, d, held, dt) ==
  IF held THEN v - (MoveAccel * VScale * dt) \div TimeScale ELSE v

\* if (moveForward || moveBackward) velocity.z -= direction.z * 400.0 * deltaTime
Accelerated(v, d, held, dt) ==
  IF held THEN v - (d * MoveAccel * VScale * dt) \div (DScale * TimeScale) ELSE v

\* The distance velocity * deltaTime, in position units.
Travel(v, dt) == (v * dt * PScale) \div (VScale * TimeScale)

\* A mutant of Clamp: the snap to the eye height leaves the fall velocity.
ClampKeepsVelocity(f) ==
  IF f.cam.position.y < EyeHeight * PScale
    THEN [f EXCEPT !.cam.position.y = EyeHeight * PScale,
                   !.canJump = TRUE]
    ELSE f

\* if (camera.position.y < 10) { velocity.y = 0; camera.position.y = 10;
\* canJump = true; }
Clamp(f) ==
  IF f.cam.position.y < EyeHeight * PScale
    THEN [f EXCEPT !.velocity.y = 0,
                   !.cam.position.y = EyeHeight * PScale,
                   !.canJump = TRUE]
    ELSE f

\* The controller block of tick (if (controls.isLocked) { ... }).
Controller(f, dt) ==
  LET v   == f.velocity
      vy1 == Fallen(v.y, dt)
      dir == Normalize(Vec((Num(moveRight) - Num(moveLeft)) * DScale,
                           f.direction.y,
                           (Num(moveForward) - Num(moveBackward)) * DScale))
      vz2 == Accelerated(Damped(v.z, dt), dir.z, moveForward \/ moveBackward, dt)
      vx2 == Accelerated(Damped(v.x, dt), dir.x, moveLeft \/ moveRight, dt)
      \* controls.moveRight(-velocity.x * deltaTime)
      dRight == Travel(-vx2, dt)
      \* controls.moveForward(-velocity.z * deltaTime)
      dFwd   == Travel(-vz2, dt)
      right  == RightAxis(f.cam.yaw)
      fwd    == WorldDirection(f.cam.yaw)
      p      == f.cam.position
  IN Clamp([f EXCEPT
       !.velocity  = Vec(vx2, vy1, vz2),
       !.direction = dir,
       !.cam.position =
          Vec(p.x + (right.x * dRight + fwd.x * dFwd) \div DScale,
              p.y + Travel(vy1, dt),
              p.z + (right.z * dRight + fwd.z * dFwd) \div DScale)])

\* A mutant of ControlStep: the controller does not ask for the capture.
ControlStepAlways(f, dt) == Call(Controller(f, dt), "controller")

ControlStep(f, dt) ==
  IF isLocked THEN Call(Controller(f, dt), "controller") ELSE f

\* Array.prototype.splice(i, 1) on a 1-based sequence.
Splice(s, i) == SubSeq(s, 1, i - 1) \o SubSeq(s, i + 1, Len(s))

\* The body of the for loop of updateSpheres, from index i down to the
\* first entry.
RECURSIVE UpdateFrom(_, _)
UpdateFrom(f, i) ==
  IF i < 1 \/ i > Len(f.reg) THEN f
  ELSE LET mesh == f.reg[i].mesh
           body == f.reg[i].body
       IN IF f.bodies[body].position.y < CullY * PScale
            THEN UpdateFrom([f EXCEPT !.scene = @ \ {mesh},
                                      !.world = @ \ {body},
                                      !.reg   = Splice(@, i)], i - 1)
            ELSE UpdateFrom([f EXCEPT !.meshes[mesh] =
                                        [position   |-> f.bodies[body].position,
                                         quaternion |-> f.bodies[body].quaternion]],
                            i - 1)

\* Mutants of updateSpheres.
\* The cull forgets world.removeBody(body).
RECURSIVE UpdateKeepingBody(_, _)
UpdateKeepingBody(f, i) ==
  IF i < 1 \/ i > Len(f.reg) THEN f
  ELSE LET mesh == f.reg[i].mesh
           body == f.reg[i].body
       IN IF f.bodies[body].position.y < CullY * PScale
            THEN UpdateKeepingBody([f EXCEPT !.scene = @ \ {mesh},
                                             !.reg   = Splice(@, i)], i - 1)
            ELSE UpdateKeepingBody([f EXCEPT !.meshes[mesh] =
                                        [position   |-> f.bodies[body].position,
                                         quaternion |-> f.bodies[body].quaternion]],
                                   i - 1)
updateSpheresKeepingBody(f) == Call(UpdateKeepingBody(f, Len(f.reg)), "sync")

\* The loop runs from the first entry to the last and splices as it goes.
RECURSIVE UpdateForward(_, _)
UpdateForward(f, i) ==
  IF i < 1 \/ i > Len(f.reg) THEN f
  ELSE LET mesh == f.reg[i].mesh
           body == f.reg[i].body
       IN IF f.bodies[body].position.y < CullY * PScale
            THEN UpdateForward([f EXCEPT !.scene = @ \ {mesh},
                                         !.world = @ \ {body},
                                         !.reg   = Splice(@, i)], i + 1)
            ELSE UpdateForward([f EXCEPT !.meshes[mesh] =
                                        [position   |-> f.bodies[body].position,
                                         quaternion |-> f.bodies[body].quaternion]],
                               i + 1)
updateSpheresForward(f) == Call(UpdateForward(f, 1), "sync")

\* The loop ends at the first entry it culls.
RECURSIVE UpdateUntilCull(_, _)
UpdateUntilCull(f, i) ==
  IF i < 1 \/ i > Len(f.reg) THEN f
  ELSE LET mesh == f.reg[i].mesh
           body == f.reg[i].body
       IN IF f.bodies[body].position.y < CullY * PScale
            THEN [f EXCEPT !.scene = @ \ {mesh},
                           !.world = @ \ {body},
                           !.reg   = Splice(@, i)]
            ELSE UpdateUntilCull([f EXCEPT !.meshes[mesh] =
                                        [position   |-> f.bodies[body].position,
                                         quaternion |-> f.bodies[body].quaternion]],
                                 i - 1)
updateSpheresUntilCull(f) == Call(UpdateUntilCull(f, Len(f.reg)), "sync")

\* A mutant of updateSpheres: the entries kept are collected as the loop
\* meets them, back to front, and the list collected becomes the registry.
updateSpheresKeepList(f) ==
  Call([UpdateFrom(f, Len(f.reg)) EXCEPT
          !.reg = [i \in 1..Len(@) |-> @[Len(@) + 1 - i]]], "sync")

\* updateSpheres: for (let i = sphereToUpdate.length - 1; i >= 0; i--).
updateSpheres(f) == Call(UpdateFrom(f, Len(f.reg)), "sync")

\* The sync loop of the second variant: for (const sphere of sphereToUpdate),
\* a copy of every transform and no cull.
RECURSIVE CopyFrom(_, _)
CopyFrom(f, i) ==
  IF i > Len(f.reg) THEN f
  ELSE CopyFrom([f EXCEPT !.meshes[f.reg[i].mesh] =
                            [position   |-> f.bodies[f.reg[i].body].position,
                             quaternion |-> f.bodies[f.reg[i].body].quaternion]],
                i + 1)

copySpheres(f) == Call(CopyFrom(f, 1), "sync")

\* renderer.render(scene, camera)
Render(f) == Call(f, "render")

\* A mutant of RequestFrame: the next frame is requested only while the
\* capture is active.
RequestFrameIfLocked(f) ==
  IF isLocked THEN Call([f EXCEPT !.pending = @ + 1], "schedule") ELSE f

\* requestAnimationFrame(tick)
RequestFrame(f) == Call([f EXCEPT !.pending = @ + 1], "schedule")

\* Objects nothing refers to any more are gone.
Collect(f) ==
  [f EXCEPT
     !.bodies = [id \in {b \in DOMAIN f.bodies :
                           b \in f.world \/ \E k \in 1..Len(f.reg) : f.reg[k].body = b}
                   |-> f.bodies[id]],
     !.meshes = [id \in {m \in DOMAIN f.meshes :
                           m \in f.scene \/ \E k \in 1..Len(f.reg) : f.reg[k].mesh = m}
                   |-> f.meshes[id]]]

\* The statements of tick run one after the other: each works on the state
\* the one before it has left.  The(S) is the element of a set of one.
The(S) == CHOOSE x \in S : TRUE

\* A mutant of tick: the registry is synchronised before the world is stepped.
tickSyncFirst(dt, phys) ==
  The({RequestFrame(Render(moved)) :
         moved \in {ControlStep(stepped, dt) :
           stepped \in {PhysicsStep(synced, dt, phys) :
             synced \in {updateSpheres(Frame)}}}})

\* tick of the first variant.
tick(dt, phys) ==
  The({RequestFrame(Render(synced)) :
         synced \in {updateSpheres(moved) :
           moved \in {ControlStep(stepped, dt) :
             stepped \in {PhysicsStep(Frame, dt, phys)}}}})

\* tick of the second variant.
tick2(dt, phys) ==
  The({RequestFrame(Render(synced)) :
         synced \in {copySpheres(stepped) :
           stepped \in {PhysicsStep(Frame, dt, phys)}}})

\* One animation frame: the scheduled callback runs to completion.
Tick(maxDt, maxTime) ==
  \E elapsedTime \in previousTime..Min(previousTime + maxDt, maxTime) :
    \E phys \in PhysChoices(elapsedTime - previousTime) :
      \E f \in {Collect(done) :
                 done \in {IF variant = 1 THEN tick(elapsedTime - previousTime, phys)
                                          ELSE tick2(elapsedTime - previousTime, phys)}} :
         /\ pending > 0
         /\ previousTime' = elapsedTime
         /\ velocity' = f.velocity
         /\ direction' = f.direction
         /\ cam' = f.cam
         /\ canJump' = f.canJump
         /\ sphereToUpdate' = f.reg
         /\ world' = f.world
         /\ scene' = f.scene
         /\ bodies' = f.bodies
         /\ meshes' = f.meshes
         /\ pending' = f.pending
         /\ ev' = Event("tick", elapsedTime - previousTime, f.calls, f.stepped,
                     ev.type = "tick")
         /\ UNCHANGED <<variant, inputVars, isLocked, logVars>>

\* ---------------------------------------------------------- specifications
\* The first variant loaded.
InitFirst == Init /\ variant = 1

\* The headings the mouse turns the camera to: -Z, +Z, +X and -X.
Headings == {0, 1, 2, 3}

\* The whole program: every listener with every input.  The specifications
\* below it run the same listeners and restrict only what the player does,
\* so every behaviour of theirs is a behaviour of the whole program; each
\* explores one part of the state in depth.
Next ==
  \/ KeyDown(Codes) \/ KeyUp(Codes)
  \/ Lock \/ Unlock \/ MouseMove(Headings)
  \/ Click(MaxSpheres)
  \/ Tick(CtlMaxDt, CtlMaxTime)

Spec == Init /\ [][Next]_vars

\* The projectiles, in both variants: the player fires, jumps and looks
\* ahead and behind, and uses no movement key, so the camera stays above
\* its starting point.
ProjCodes    == {"Space", "KeyQ"}
ProjHeadings == {0, 1}

NextProj ==
  \/ KeyDown(ProjCodes) \/ KeyUp(ProjCodes)
  \/ Lock \/ Unlock \/ MouseMove(ProjHeadings)
  \/ Click(MaxSpheres)
  \/ Tick(ProjMaxDt, ProjMaxTime)

SpecProj == Init /\ [][NextProj]_vars

\* The controller: the player walks with every movement key and looks
\* along -Z and +X, and never jumps or fires.
CtlCodes    == MoveCodes \cup {"KeyQ"}
CtlHeadings == {0, 2}

NextCtl ==
  \/ KeyDown(CtlCodes) \/ KeyUp(CtlCodes)
  \/ Lock \/ Unlock \/ MouseMove(CtlHeadings)
  \/ Tick(CtlMaxDt, CtlMaxTime)

SpecCtl == InitFirst /\ [][NextCtl]_vars

\* The jump: the player only jumps and takes or releases the capture, over
\* a horizon long enough to jump and land again.
JumpCodes == {"Space", "KeyQ"}

NextJump ==
  \/ KeyDown(JumpCodes) \/ KeyUp(JumpCodes)
  \/ Lock \/ Unlock
  \/ Tick(JumpMaxDt, JumpMaxTime)

SpecJump == InitFirst /\ [][NextJump]_vars

\* The released capture: the player walks forward, jumps and fires, and
\* takes and releases the capture while moving and while projectiles fly.
IdleCodes == {"KeyW", "Space"}

NextIdle ==
  \/ KeyDown(IdleCodes) \/ KeyUp(IdleCodes)
  \/ Lock \/ Unlock
  \/ Click(IdleMaxSpheres)
  \/ Tick(IdleMaxDt, IdleMaxTime)

SpecIdle == InitFirst /\ [][NextIdle]_vars

\* The frame loop under the browser's scheduling, in both variants: the
\* player holds and releases the forward key, takes and releases the
\* capture and fires, and a requested animation frame is eventually run.
LoopCodes == {"KeyW"}

NextLoop ==
  \/ KeyDown(LoopCodes) \/ KeyUp(LoopCodes)
  \/ Lock \/ Unlock
  \/ Click(LoopMaxSpheres)
  \/ Tick(LoopMaxDt, LoopMaxTime)

SpecLoop ==
  Init /\ [][NextLoop]_vars /\ WF_vars(Tick(LoopMaxDt, LoopMaxTime))

\* The pause: the player walks forward and to the right and lets go, and
\* the frames come late, up to several tenths of a second apart.
PauseCodes == {"KeyW", "KeyD"}

NextPause ==
  \/ KeyDown(PauseCodes) \/ KeyUp(PauseCodes)
  \/ Lock \/ Unlock
  \/ Tick(PauseMaxDt, PauseMaxTime)

SpecPause == InitFirst /\ [][NextPause]_vars

\* The registry: the player takes and releases the capture and fires, and
\* the world takes the projectiles where it will.
NextReg ==
  \/ Lock \/ Unlock
  \/ Click(RegMaxSpheres)
  \/ Tick(RegMaxDt, RegMaxTime)

SpecReg == InitFirst /\ [][NextReg]_vars

\* The keyboard alone: every sequence of key events.
NextKeys == KeyDownLogged \/ KeyUpLogged

SpecKeys == InitFirst /\ [][NextKeys]_vars

\* ================================================================ claims
Range(q) == {q[k] : k \in 1..Len(q)}
SceneStatics == {camera, ambientLight, directionalLight, plane}
Eye == EyeHeight * PScale
TickRan(e) == e.type = "tick"
ControllerRan(e) == e.type = "tick" /\ \E k \in 1..Len(e.calls) : e.calls[k] = "controller"

\* C1: in every state the projectile meshes in the scene, the projectile
\* bodies in the world and the registry entries are equally many, and every
\* entry's body is in the world and its mesh in the scene.
C1_PairsMatch ==
  /\ Cardinality(scene \ SceneStatics) = Len(sphereToUpdate)
  /\ Cardinality(world \ {planeBody}) = Len(sphereToUpdate)
  /\ \A k \in 1..Len(sphereToUpdate) :
       /\ sphereToUpdate[k].body \in world \ {planeBody}
       /\ sphereToUpdate[k].mesh \in scene \ SceneStatics

\* C1 witness: a spawn and cull cycle has happened and left a survivor: the
\* only entry is the second projectile spawned, after a tick that culled.
C1_Witness ==
  /\ variant = 1
  /\ TickRan(ev)
  /\ Len(sphereToUpdate) = 1
  /\ sphereToUpdate[1].body = 2
  /\ Cardinality(DOMAIN ev.stepped) = 2

\* C2: in one pass of updateSpheres an entry of the registry is dropped iff
\* its body is strictly below the cull threshold; a kept entry stays in the
\* world and the scene and its mesh takes the body's position and
\* orientation, a dropped entry leaves the world and the scene in that pass.
C2_CullRule ==
  [][(TickRan(ev') /\ variant = 1) =>
       \A k \in 1..Len(sphereToUpdate) :
         LET e == sphereToUpdate[k]
             b == ev'.stepped[e.body]
         IN IF b.position.y < CullY * PScale
              THEN /\ e \notin Range(sphereToUpdate')
                   /\ e.mesh \notin scene'
                   /\ e.body \notin world'
              ELSE /\ e \in Range(sphereToUpdate')
                   /\ e.mesh \in scene'
                   /\ e.body \in world'
                   /\ meshes'[e.mesh] = [position   |-> b.position,
                                         quaternion |-> b.quaternion]]_vars

\* C2 witness: a pass has just dropped two adjacent entries, both one unit
\* below the threshold.
C2_Witness ==
  /\ variant = 1
  /\ TickRan(ev)
  /\ DOMAIN ev.stepped = {1, 2}
  /\ \A id \in DOMAIN ev.stepped : ev.stepped[id].position.y = (CullY - 1) * PScale
  /\ sphereToUpdate = <<>>

\* C3: a click while the capture is inactive changes no projectile, no
\* movement flag and nothing of the controller.
C3_InactiveClick ==
  [][(ev'.type = "click" /\ ~isLocked) =>
       UNCHANGED <<projVars, inputVars, ctlVars, isLocked>>]_vars

\* C3 witness: the last listener was a click with the capture inactive, and
\* the registry already held a projectile.
C3_Witness ==
  /\ ev.type = "click"
  /\ ~isLocked
  /\ Len(sphereToUpdate) = 1

\* C4: a click while the capture is active adds one new body to the world
\* and one new mesh to the scene and appends the entry pairing them; the
\* entries already there stay as they were.
C4_ActiveClick ==
  [][(ev'.type = "click" /\ isLocked) =>
       \E b \in world' \ world : \E m \in scene' \ scene :
         /\ b \notin DOMAIN bodies
         /\ m \notin DOMAIN meshes
         /\ world' = world \cup {b}
         /\ scene' = scene \cup {m}
         /\ sphereToUpdate' = Append(sphereToUpdate, [mesh |-> m, body |-> b])
         /\ \A id \in DOMAIN bodies : bodies'[id] = bodies[id]
         /\ \A id \in DOMAIN meshes : meshes'[id] = meshes[id]]_vars

\* C4 witness: a click with the capture active has just appended a second
\* entry.
C4_Witness ==
  /\ ev.type = "click"
  /\ isLocked
  /\ Len(sphereToUpdate) = 2

FlagOf(d) ==
  CASE d = "forward"  -> moveForward
    [] d = "backward" -> moveBackward
    [] d = "left"     -> moveLeft
    [] d = "right"    -> moveRight

\* C5 as stated: the flag of every movement key is set iff the most recent
\* event of that very key was a key-down.
C5_PerKey ==
  \A code \in MoveCodes : FlagOf(Binding(code)) <=> keyLog[code] = "down"

\* C5 as amended: the flag of every direction is set iff the most recent
\* event among the keys bound to that direction was a key-down, and an event
\* with an unknown key code changes nothing.
C5_PerDirection ==
  /\ [](\A d \in Dirs : FlagOf(d) <=> dirLog[d] = "down")
  /\ [][keyLog'["KeyQ"] # keyLog["KeyQ"] =>
          UNCHANGED <<inputVars, ctlVars, isLocked, projVars, loopVars>>]_vars

\* C5 witness: KeyW is still held, ArrowUp was pressed and released after it
\* and the forward flag is cleared; an unknown key has been pressed too.
C5_Witness ==
  /\ keyLog["KeyW"] = "down"
  /\ keyLog["ArrowUp"] = "up"
  /\ dirLog["forward"] = "up"
  /\ ~moveForward
  /\ moveRight
  /\ keyLog["KeyQ"] = "down"

\* C6: a Space key-down adds the jump impulse and clears canJump when canJump
\* is set and changes nothing otherwise; canJump is set again only by the
\* ground clamp of a controller tick; and velocity.y rises only by one jump
\* impulse given while canJump was set, or by the clamp resetting it to 0.
C6_JumpLatch ==
  [][/\ ev'.type = "space" =>
          IF canJump
            THEN /\ velocity' = [velocity EXCEPT !.y = @ + JumpImpulse * VScale]
                 /\ ~canJump'
                 /\ cam' = cam
            ELSE UNCHANGED <<velocity, canJump, cam>>
     /\ (~canJump /\ canJump') =>
          /\ ControllerRan(ev')
          /\ cam'.position.y = Eye
          /\ velocity'.y = 0
     /\ velocity'.y > velocity.y =>
          \/ /\ ev'.type = "space"
             /\ canJump /\ ~canJump'
             /\ velocity'.y = velocity.y + JumpImpulse * VScale
          \/ /\ ControllerRan(ev')
             /\ velocity'.y = 0 /\ canJump']_vars

\* C6 witness: Space is pressed in mid-air, after a jump, while the camera is
\* falling: canJump is clear and the key-down has changed nothing.
C6_Witness ==
  /\ ev.type = "space"
  /\ ~canJump
  /\ cam.position.y > Eye
  /\ velocity.y < 0

\* C7: a tick with no elapsed time leaves the velocity and the camera
\* position as they were, and both stay defined numbers.
C7_ZeroDt ==
  [][(TickRan(ev') /\ ev'.dt = 0) =>
       /\ velocity' = velocity
       /\ cam'.position = cam.position
       /\ \A c \in {velocity'.x, velocity'.y, velocity'.z,
                    cam'.position.x, cam'.position.y, cam'.position.z} : c \in Int]_vars

\* C7 witness: the controller has just run with no elapsed time while the
\* camera was moving and two movement keys were held.
C7_Witness ==
  /\ ControllerRan(ev)
  /\ ev.dt = 0
  /\ moveForward /\ moveLeft
  /\ velocity.x # 0 /\ velocity.z # 0
  /\ cam.position.x # 0

\* C8: the camera is never below the eye height; a controller tick whose
\* integrated height is below it ends at the eye height with velocity.y 0
\* and canJump set, and otherwise ends at the integrated height with the
\* integrated velocity and canJump as it was.
C8_GroundClamp ==
  /\ [](cam.position.y >= Eye)
  /\ [][ControllerRan(ev') =>
          LET vy == Fallen(velocity.y, ev'.dt)
              py == cam.position.y + Travel(vy, ev'.dt)
          IN IF py < Eye
               THEN /\ cam'.position.y = Eye
                    /\ velocity'.y = 0
                    /\ canJump'
               ELSE /\ cam'.position.y = py
                    /\ velocity'.y = vy
                    /\ canJump' = canJump]_vars

\* C8 witness: a controller tick over a positive elapsed time has just ended
\* on the ground, at a time at which a jump can have come down again.
C8_Witness ==
  /\ ControllerRan(ev)
  /\ ev.dt > 0
  /\ cam.position.y = Eye
  /\ velocity.y = 0
  /\ canJump
  /\ previousTime = JumpMaxTime

\* C9: a tick of the first variant steps the world, runs the controller iff
\* the capture is active, synchronises the registry, renders and schedules
\* the next tick, in this order and once each; it handles no input in
\* between; the world does not advance without elapsed time; and every mesh
\* of the registry ends with the transform its body has after the step.
C9_TickOrder ==
  [][(TickRan(ev') /\ variant = 1) =>
       /\ ev'.calls = IF isLocked
                        THEN <<"step", "controller", "sync", "render", "schedule">>
                        ELSE <<"step", "sync", "render", "schedule">>
       /\ UNCHANGED <<inputVars, isLocked>>
       /\ pending' = pending
       /\ ev'.dt = 0 => ev'.stepped = bodies
       /\ \A k \in 1..Len(sphereToUpdate') :
            LET e == sphereToUpdate'[k]
            IN meshes'[e.mesh] = [position   |-> ev'.stepped[e.body].position,
                                  quaternion |-> ev'.stepped[e.body].quaternion]]_vars

\* C9 witness: a tick has run the controller and the world has moved a body
\* of the registry to the cull threshold.
C9_Witness ==
  /\ variant = 1
  /\ ControllerRan(ev)
  /\ ev.dt > 0
  /\ Len(sphereToUpdate) >= 1
  /\ bodies[sphereToUpdate[1].body].position.y = CullY * PScale

\* C10: a tick without elapsed time that follows a tick directly runs the
\* sync step a second time with no world step, click or other event in
\* between, and changes nothing of the registry, the world, the scene and
\* the transforms.
C10_SyncTwice ==
  [][(TickRan(ev') /\ ev'.again /\ ev'.dt = 0) => UNCHANGED projVars]_vars

\* C10 witness: the sync step has run twice in succession over a registry
\* of two entries, one of them at the cull threshold.
C10_Witness ==
  /\ TickRan(ev) /\ ev.again /\ ev.dt = 0
  /\ Len(sphereToUpdate) = 2
  /\ meshes[sphereToUpdate[1].mesh].position.y = CullY * PScale
  /\ meshes[sphereToUpdate[2].mesh].position.y # CullY * PScale

\* C11: a spawn with the camera at p facing the unit direction d gives the
\* new body the position p + 1 d and the velocity 20 d (facing +Z: velocity
\* (0, 0, 20) and position p + (0, 0, 1)), and changes neither the camera
\* nor the velocity of the controller.
C11_SpawnKinematics ==
  [][(ev'.type = "click" /\ isLocked) =>
       LET p == cam.position
           d == WorldDirection(cam.yaw)
           b == bodies'[sphereToUpdate'[Len(sphereToUpdate')].body]
       IN /\ Len(sphereToUpdate') = Len(sphereToUpdate) + 1
          /\ b.position.x * DScale = p.x * DScale + SpawnOffset * d.x * PScale
          /\ b.position.y * DScale = p.y * DScale + SpawnOffset * d.y * PScale
          /\ b.position.z * DScale = p.z * DScale + SpawnOffset * d.z * PScale
          /\ b.velocity.x * DScale = ShootVelocity * d.x * VScale
          /\ b.velocity.y * DScale = ShootVelocity * d.y * VScale
          /\ b.velocity.z * DScale = ShootVelocity * d.z * VScale
          /\ cam.yaw = 1 =>
               /\ b.velocity = Vec(0, 0, ShootVelocity * VScale)
               /\ b.position = Vec(p.x, p.y, p.z + SpawnOffset * PScale)
          /\ cam' = cam
          /\ velocity' = velocity]_vars

\* C11 witness: a projectile has just been spawned facing +Z from a camera
\* that is in the air after a jump and still rising.
C11_Witness ==
  /\ ev.type = "click"
  /\ isLocked
  /\ cam.yaw = 1
  /\ cam.position.y > Eye
  /\ velocity.y > 0
  /\ Len(sphereToUpdate) >= 1
  /\ bodies[sphereToUpdate[Len(sphereToUpdate)].body].position =
       Vec(0, cam.position.y, SpawnOffset * PScale)

\* C12: a tick run while the capture is inactive leaves the velocity, the
\* camera position and canJump as they were, whatever keys are held, and
\* still steps the world, synchronises and culls the registry, renders and
\* schedules the next tick.
C12_ReleasedTick ==
  [][(TickRan(ev') /\ ~isLocked) =>
       /\ velocity' = velocity
       /\ cam'.position = cam.position
       /\ canJump' = canJump
       /\ ev'.calls = <<"step", "sync", "render", "schedule">>
       /\ DOMAIN ev'.stepped = DOMAIN bodies
       /\ \A k \in 1..Len(sphereToUpdate) :
            LET e == sphereToUpdate[k]
                b == ev'.stepped[e.body]
            IN IF b.position.y < CullY * PScale
                 THEN e \notin Range(sphereToUpdate') /\ e.mesh \notin scene'
                      /\ e.body \notin world'
                 ELSE e \in Range(sphereToUpdate')
                      /\ meshes'[e.mesh] = [position   |-> b.position,
                                            quaternion |-> b.quaternion]]_vars

\* C12 witness: a tick over a positive elapsed time has run with the capture
\* released while the forward key was held and the camera was moving and in
\* the air after a jump, and it has culled a projectile.
C12_Witness ==
  /\ TickRan(ev) /\ ~ControllerRan(ev)
  /\ ~isLocked
  /\ ev.dt > 0
  /\ moveForward
  /\ velocity.z # 0
  /\ velocity.y # 0
  /\ cam.position.y > Eye
  /\ DOMAIN ev.stepped # {}
  /\ sphereToUpdate = <<>>

NoKeyHeld == ~(moveForward \/ moveBackward \/ moveLeft \/ moveRight)

\* C13: for every elapsed time, a controller tick with no movement key held
\* neither increases the absolute value of velocity.x or velocity.z nor
\* reverses their sign.
C13_DampingContracts ==
  [][(ControllerRan(ev') /\ NoKeyHeld) =>
       /\ Abs(velocity'.x) <= Abs(velocity.x)
       /\ Abs(velocity'.z) <= Abs(velocity.z)
       /\ velocity'.x * velocity.x >= 0
       /\ velocity'.z * velocity.z >= 0]_vars

Scheduled(e) == Len(SelectSeq(e.calls, LAMBDA c : c = "schedule"))

\* C14: the frame loop never stops: every tick, with the capture active or
\* not and whatever the registry holds, requests the next tick once, as its
\* last call; between ticks exactly one tick is pending and can run; and
\* ticks keep occurring for ever, after every other listener too.
C14_LoopNeverStops ==
  /\ [](pending = 1)
  /\ [](ENABLED Tick(LoopMaxDt, LoopMaxTime))
  /\ [][TickRan(ev') =>
          /\ Scheduled(ev') = 1
          /\ ev'.calls[Len(ev'.calls)] = "schedule"
          /\ pending' = pending]_vars
  /\ []<>TickRan(ev)
  /\ (~TickRan(ev)) ~> TickRan(ev)

\* C14 witness: a tick with the capture released has just culled the last
\* projectile, and the next tick is pending.
C14_Witness ==
  /\ TickRan(ev)
  /\ ~isLocked
  /\ Cardinality(DOMAIN ev.stepped) = 1
  /\ sphereToUpdate = <<>>
  /\ world = {planeBody}
  /\ pending = 1

AxisZ == Num(moveForward) - Num(moveBackward)
AxisX == Num(moveRight) - Num(moveLeft)

\* C15: in a controller tick the forward and the sideways axis resolve to
\* -1, 0 or +1 and the direction points that way; an axis that resolves to
\* 0, with neither or both of its keys held, has its velocity component
\* damped and not accelerated; and when both resolve to 0 the direction is
\* the zero vector and velocity.x and velocity.z stay defined numbers.
C15_AxisResolution ==
  [][ControllerRan(ev') =>
       /\ AxisZ \in {-1, 0, 1} /\ AxisX \in {-1, 0, 1}
       /\ Sgn(direction'.z) = AxisZ /\ Sgn(direction'.x) = AxisX
       /\ direction'.y = 0
       /\ (AxisX = 0) => direction'.z = AxisZ * DScale
       /\ (AxisZ = 0) => direction'.x = AxisX * DScale
       /\ (AxisZ = 0) => velocity'.z = Damped(velocity.z, ev'.dt)
       /\ (AxisX = 0) => velocity'.x = Damped(velocity.x, ev'.dt)
       /\ (AxisZ = 0 /\ AxisX = 0) =>
            /\ direction' = Zero3
            /\ velocity'.x \in Int /\ velocity'.z \in Int]_vars

\* C15 witness: after a step forward the player holds forward and backward
\* together and the right key: a controller tick over a positive elapsed
\* time has damped velocity.z away and accelerated only velocity.x.
C15_Witness ==
  /\ ControllerRan(ev)
  /\ ev.dt > 0
  /\ moveForward /\ moveBackward /\ moveRight /\ ~moveLeft
  /\ cam.position.z # 0
  /\ velocity.z = 0
  /\ velocity.x # 0
  /\ direction = Vec(DScale, 0, 0)

\* C16: after every tick of the second variant no entry of the registry has
\* a body below the cull threshold.
C16_SecondVariantCulls ==
  (variant = 2 /\ TickRan(ev)) =>
    \A k \in 1..Len(sphereToUpdate) :
      bodies[sphereToUpdate[k].body].position.y >= CullY * PScale

\* C17: between listeners, canJump set implies that velocity.y is 0 and the
\* camera is at the eye height; and velocity.y never exceeds one jump
\* impulse.
C17_LatchInvariant ==
  /\ canJump => (velocity.y = 0 /\ cam.position.y = Eye)
  /\ velocity.y <= JumpImpulse * VScale

\* C17 witness: the player has landed, released the capture and pressed
\* Space: velocity.y is exactly one jump impulse and canJump is clear.
C17_Witness ==
  /\ ev.type = "space"
  /\ ~isLocked
  /\ ~canJump
  /\ velocity.y = JumpImpulse * VScale
  /\ cam.position.y = Eye
  /\ previousTime > 0

Kept(q, S) == SelectSeq(q, LAMBDA e : e \in S)

\* C18: every step leaves the registry either as the entries of it that
\* survive, in the order they had, or with one new entry appended at its
\* end; and no body and no mesh is in two entries of the registry.
C18_RegistryOrder ==
  /\ [](\A i, j \in 1..Len(sphereToUpdate) :
          i # j => /\ sphereToUpdate[i].body # sphereToUpdate[j].body
                   /\ sphereToUpdate[i].mesh # sphereToUpdate[j].mesh)
  /\ [][\/ sphereToUpdate' = Kept(sphereToUpdate, Range(sphereToUpdate'))
        \/ \E e \in Range(sphereToUpdate') \ Range(sphereToUpdate) :
             sphereToUpdate' = Append(sphereToUpdate, e)]_vars

\* C18 witness: of three projectiles the first was culled and the two others
\* kept their order, and a fourth, which takes over the identity of the
\* first, has just been appended after them.
C18_Witness ==
  /\ ev.type = "click"
  /\ Len(sphereToUpdate) = 3
  /\ sphereToUpdate[1].body = 2
  /\ sphereToUpdate[2].body = 3
  /\ sphereToUpdate[3].body = 1

====
